---------------------------- MODULE Spec2Model ----------------------------
(***************************************************************************)
(* A model of the classical planner: the FDR -> STRIPS conversion          *)
(* (Main.py), the h_max heuristic (hmax.py), the LM-Cut heuristic          *)
(* (lmcut.py) and the A* driver and runner (planner.py).                   *)
(*                                                                         *)
(* Python strings are sequences of one-character strings, Python sets are  *)
(* sets, Python lists are sequences, float('inf') is INF.                  *)
(***************************************************************************)
EXTENDS Integers, Sequences, FiniteSets, TLC

VARIABLES
    sas,          \* the parsed task (read_sas_file's data_obj), never written
    entry,        \* "run_planning" | "A_star": the function the run calls
    heuristic,    \* "hmax" | "lmcut": the heuristic name / heuristic_f
    inf_same,     \* whether the interpreter gives equal floats one identity
    actions,      \* the caller's list of actions (mutable, shared by all calls)
    facts,        \* the caller's set of facts (mutable, shared by all calls)
    pc,           \* position of the run
    open_nodes,   \* A*'s heap (a Python list kept in heap order by heapq)
    distance,     \* A*'s dict state -> best g
    current,      \* the node popped last
    succ,         \* successors of current still to be evaluated
    lm,           \* the frame of the running compute_h_lm_cut call
    result,       \* what A_star returned
    output,       \* the lines printed
    inserted      \* the nodes the open list holds, in the order of their insertion

vars == <<sas, entry, heuristic, inf_same, actions, facts, pc,
          open_nodes, distance, current, succ, lm, result, output, inserted>>

-----------------------------------------------------------------------------
(* Bounds of the checked instances *)

MaxOps == 2
MaxCost == 2
MaxRounds == 3

(* float('inf'): larger than every finite cost sum of a bounded instance *)
INF == 1000000

-----------------------------------------------------------------------------
(* Strings *)

Digit(d) ==
    CASE d = 0 -> "0" [] d = 1 -> "1" [] d = 2 -> "2" [] d = 3 -> "3"
      [] d = 4 -> "4" [] d = 5 -> "5" [] d = 6 -> "6" [] d = 7 -> "7"
      [] d = 8 -> "8" [] d = 9 -> "9"

RECURSIVE Dec(_)
Dec(n) == IF n < 10 THEN <<Digit(n)>> ELSE Dec(n \div 10) \o <<Digit(n % 10)>>

Ord(ch) ==
    CASE ch = "0" -> 48 [] ch = "1" -> 49 [] ch = "2" -> 50 [] ch = "3" -> 51
      [] ch = "4" -> 52 [] ch = "5" -> 53 [] ch = "6" -> 54 [] ch = "7" -> 55
      [] ch = "8" -> 56 [] ch = "9" -> 57 [] ch = "G" -> 71 [] ch = "I" -> 73
      [] ch = "_" -> 95 [] ch = "i" -> 105 [] ch = "s" -> 115 [] ch = "v" -> 118

startswith(s, p) == Len(s) >= Len(p) /\ SubSeq(s, 1, Len(p)) = p

fact_name(i, k) == <<"v">> \o Dec(i) \o <<"_", "i", "s", "_">> \o Dec(k)

del_prefix(idx) == <<"v">> \o Dec(idx) \o <<"_", "i", "s", "_">>

Range(s) == {s[i] : i \in DOMAIN s}

Max(S) == CHOOSE x \in S : \A y \in S : y <= x
Min(S) == CHOOSE x \in S : \A y \in S : x <= y

-----------------------------------------------------------------------------
(* Main.py: FDR -> STRIPS *)

get_init_state(sas_data) ==
    {fact_name(i - 1, sas_data.initial_state[i]) : i \in DOMAIN sas_data.initial_state}

process_conditions(conditions) == {fact_name(c[1], c[2]) : c \in Range(conditions)}

convert_operator(oper) ==
    LET effs == {SubSeq(eff, 2, 4) : eff \in Range(oper.effects)}
    IN  [name |-> oper.name,
         preconditions |-> process_conditions(oper.prevail)
                             \cup {fact_name(e[1], e[2]) : e \in {x \in effs : x[2] # -1}},
         additions |-> {fact_name(e[1], e[3]) : e \in effs},
         add_is_str |-> FALSE,
         deletions |-> {e[1] : e \in effs},
         cost |-> oper.cost]

get_actions(sas_data) ==
    [i \in DOMAIN sas_data.operators |-> convert_operator(sas_data.operators[i])]

get_goal_state(sas_data) == {fact_name(g[1], g[2]) : g \in sas_data.goal}

action_facts(acts) ==
    UNION {acts[i].preconditions \cup acts[i].additions : i \in DOMAIN acts}

convert_fdr_to_strips(sas_data) ==
    LET initial_state == get_init_state(sas_data)
        acts == get_actions(sas_data)
        goal_state == get_goal_state(sas_data)
    IN  [initial_state |-> initial_state,
         goal_state |-> goal_state,
         actions |-> acts,
         facts |-> (initial_state \cup action_facts(acts)) \cup goal_state]

-----------------------------------------------------------------------------
(* planner.py: successors and goal test *)

(* is_goal satisfied by any one goal fact *)
is_goal_any(state, goal_state) == goal_state \cap state # {}

is_goal(state, goal_state) == goal_state \subseteq state

(* the test of line 89 with == in place of startswith *)
deleted_exact(fact, action) ==
    \E idx \in action.deletions : fact = del_prefix(idx)

deleted(fact, action) ==
    \E idx \in action.deletions : startswith(fact, del_prefix(idx))

apply_action(state, action) ==
    {fact \in state \cup action.additions : ~deleted(fact, action)}
        \cup action.additions

(* the indices of the applicable actions, in list order *)
applicable(state, acts) ==
    SelectSeq([i \in DOMAIN acts |-> i],
              LAMBDA i : acts[i].preconditions \subseteq state)

(* state | action['additions'] raises TypeError when additions is a str *)
get_succ_raises(state, acts) ==
    \E i \in DOMAIN acts : acts[i].preconditions \subseteq state /\ acts[i].add_is_str

(* the list of (action, new_state); the action is the dict of the list     *)
(* itself, kept here as its index                                          *)
get_succ(state, acts) ==
    LET app == applicable(state, acts)
    IN  [j \in DOMAIN app |->
            [action |-> app[j], new_state |-> apply_action(state, acts[app[j]])]]

-----------------------------------------------------------------------------
(* hmax.py *)

Plus(a, b) == IF a = INF \/ b = INF THEN INF ELSE a + b

names_of(acts) == {acts[i].name : i \in DOMAIN acts}

(* a dict comprehension keyed by name: of two actions with one name the     *)
(* later one's value stays                                                  *)
last_named(acts, n) == acts[Max({i \in DOMAIN acts : acts[i].name = n})]

init_delta(initial_state, fs) == [f \in fs |-> IF f \in initial_state THEN 0 ELSE INF]

init_u(acts) == [n \in names_of(acts) |-> Cardinality(last_named(acts, n).preconditions)]

(* update_delta without the min: the fact's delta is overwritten *)
update_delta_overwrite(delta, action) ==
    LET prev_max == Max({0} \cup {delta[f] : f \in action.preconditions})
        new == Plus(prev_max, action.cost)
    IN  [f \in DOMAIN delta |-> IF f \in action.additions THEN new ELSE delta[f]]

(* for fact in action["additions"]: update_delta(delta, fact, action).      *)
(* prev_max is the same for every fact of the loop: a fact that is also a   *)
(* precondition keeps its delta, costs being >= 0.                          *)
update_delta(delta, action) ==
    LET prev_max == Max({0} \cup {delta[f] : f \in action.preconditions})
        new == Plus(prev_max, action.cost)
    IN  [f \in DOMAIN delta |->
            IF f \in action.additions /\ new < delta[f] THEN new ELSE delta[f]]

RECURSIVE relax_empty(_, _, _)
relax_empty(delta, acts, i) ==
    IF i > Len(acts) THEN delta
    ELSE relax_empty(IF acts[i].preconditions = {} THEN update_delta(delta, acts[i])
                     ELSE delta,
                     acts, i + 1)

(* the facts select_next_fact can return: an unprocessed fact of minimal    *)
(* finite delta, the first such in the iteration order of the set `facts`;  *)
(* the empty set stands for None                                            *)
select_next_fact(delta, fs, c) ==
    {k \in fs \ c : delta[k] < INF /\ \A f \in fs \ c : delta[k] <= delta[f]}

(* the body of the for loop over actions after c.add(k) *)
RECURSIVE settle(_, _, _, _)
settle(cfg, k, acts, i) ==
    IF i > Len(acts) THEN cfg
    ELSE IF k \in acts[i].preconditions
         THEN LET n == acts[i].name
                  u2 == [cfg.u EXCEPT ![n] = @ - 1]
              IN  settle([delta |-> IF u2[n] = 0 THEN update_delta(cfg.delta, acts[i])
                                    ELSE cfg.delta,
                          u |-> u2, c |-> cfg.c],
                         k, acts, i + 1)
         ELSE settle(cfg, k, acts, i + 1)

count_h_max(delta, goal_state) == Max({0} \cup {delta[f] : f \in goal_state})

(* the while loop of compute_h_max, from the configuration `cfg`: the set   *)
(* of its outcomes over the iteration orders of `facts`.  An                *)
(* outcome is [h, delta, returned_inf]; returned_inf marks the early        *)
(* return of a bare float('inf').                                           *)
RECURSIVE h_max_loop(_, _, _, _)
h_max_loop(cfg, goal_state, acts, fs) ==
    IF goal_state \subseteq cfg.c
    THEN {[h |-> count_h_max(cfg.delta, goal_state), delta |-> cfg.delta,
           returned_inf |-> FALSE]}
    ELSE IF select_next_fact(cfg.delta, fs, cfg.c) = {}
    THEN {[h |-> INF, delta |-> cfg.delta, returned_inf |-> TRUE]}
    ELSE UNION {h_max_loop(next, goal_state, acts, fs) :
                   next \in {settle([cfg EXCEPT !.c = @ \cup {k}], k, acts, 1) :
                                k \in select_next_fact(cfg.delta, fs, cfg.c)}}

h_max_outcomes(initial_state, goal_state, acts, fs) ==
    h_max_loop([delta |-> relax_empty(init_delta(initial_state, fs), acts, 1),
                u |-> init_u(acts), c |-> {}],
               goal_state, acts, fs)

(* the values compute_h_max can return *)
compute_h_max(initial_state, goal_state, acts, fs) ==
    {o.h : o \in h_max_outcomes(initial_state, goal_state, acts, fs)}

(* what compute_h_max_for_lm_cut can return: the pair (h, delta), or the    *)
(* bare float('inf') (returned_inf), which the caller cannot unpack         *)
compute_h_max_for_lm_cut(initial_state, goal_state, acts, fs) ==
    h_max_outcomes(initial_state, goal_state, acts, fs)

-----------------------------------------------------------------------------
(* lmcut.py *)

(* supp = None *)
NoFact == <<>>

fact_I == <<"I">>
fact_G == <<"G">>

(* the elif branch of count_supporters: whether `fact` takes the place of   *)
(* `supp` when their deltas are equal                                       *)
tie_replaces(fact, supp) ==
    \E i \in 1..Len(fact) : i > Len(supp) \/ Ord(fact[i]) > Ord(supp[i])

supp_step(st, fact, delta) ==
    IF delta[fact] > st.max_d THEN [max_d |-> delta[fact], supp |-> fact]
    ELSE IF delta[fact] = st.max_d /\ tie_replaces(fact, st.supp)
         THEN [max_d |-> delta[fact], supp |-> fact]
         ELSE st

(* the supporters the loop over action["preconditions"] can end with, over  *)
(* the iteration orders of the set                                          *)
RECURSIVE supp_outcomes(_, _, _)
supp_outcomes(rest, st, delta) ==
    IF rest = {} THEN {st.supp}
    ELSE UNION {supp_outcomes(rest \ {f}, supp_step(st, f, delta), delta) : f \in rest}

action_supporters(action, delta) ==
    supp_outcomes(action.preconditions, [max_d |-> -1, supp |-> NoFact], delta)

(* the functions that take each d of DOMAIN S to an element of S[d] *)
RECURSIVE choice_functions(_)
choice_functions(S) ==
    IF DOMAIN S = {} THEN {<<>>}
    ELSE LET d == CHOOSE x \in DOMAIN S : TRUE
             rest == [x \in DOMAIN S \ {d} |-> S[x]]
         IN  {(d :> v) @@ g : v \in S[d], g \in choice_functions(rest)}

(* the dicts count_supporters can return *)
count_supporters(acts, delta) ==
    choice_functions([n \in names_of(acts) |->
                         action_supporters(last_named(acts, n), delta)])

(* adj.get(None) is None and set(None) raises TypeError *)
graph_raises(acts, supporters) ==
    \E i \in DOMAIN acts : supporters[acts[i].name] = NoFact

(* the edges of the justification graph: <<tail, head, name, cost>> *)
create_justification_graph(acts, supporters) ==
    UNION {{<<supporters[acts[i].name], eff, acts[i].name, acts[i].cost>> :
                eff \in acts[i].additions} : i \in DOMAIN acts}

RECURSIVE zero_cost_closure(_, _)
zero_cost_closure(graph, N) ==
    LET more == {e[1] : e \in {x \in graph : x[2] \in N /\ x[4] = 0}} \ N
    IN  IF more = {} THEN N ELSE zero_cost_closure(graph, N \cup more)

RECURSIVE forward_closure(_, _, _)
forward_closure(graph, N_star, N) ==
    LET more == {e[2] : e \in {x \in graph : x[1] \in N}} \ (N_star \cup N)
    IN  IF more = {} THEN N ELSE forward_closure(graph, N_star, N \cup more)

s_t_cut(graph, initial_state, goal_state) ==
    LET goal_fact == CHOOSE f \in goal_state : TRUE
        init_fact == CHOOSE f \in initial_state : TRUE
        N_star == zero_cost_closure(graph, {goal_fact})
        seeded == \E e \in graph : e[1] = init_fact /\ e[2] \notin N_star
        N_zero == IF seeded THEN forward_closure(graph, N_star, {init_fact}) ELSE {}
    IN  [N_star |-> N_star, N_zero |-> N_zero]

find_landmarks(N_star, N_zero, graph) ==
    LET cut == {e \in graph : e[1] \in N_zero /\ e[2] \in N_star}
        lm_costs == {e[4] : e \in cut}
    IN  [landmarks |-> {e[3] : e \in cut},
         min_cost |-> IF lm_costs # {} THEN Min(lm_costs) ELSE 0]

adjust_landmarks(landmarks, lm_cost, acts) ==
    [i \in DOMAIN acts |->
        IF acts[i].name \in landmarks
        THEN [acts[i] EXCEPT !.cost = @ - lm_cost]
        ELSE acts[i]]

new_init(initial_state) ==
    [name |-> "new_init", preconditions |-> {fact_I}, additions |-> initial_state,
     add_is_str |-> FALSE, deletions |-> {}, cost |-> 0]

(* "additions": new_fact is the str "G": iterating it yields "G" *)
new_goal(goal_state) ==
    [name |-> "new_goal", preconditions |-> goal_state, additions |-> {fact_G},
     add_is_str |-> TRUE, deletions |-> {}, cost |-> 0]

(* transform_prob appends to the caller's list and adds to the caller's set *)
transform_prob(initial_state, goal_state, acts, fs) ==
    LET many_i == Cardinality(initial_state) > 1
        many_g == Cardinality(goal_state) > 1
        acts1 == IF many_i THEN Append(acts, new_init(initial_state)) ELSE acts
    IN  [initial_state |-> IF many_i THEN {fact_I} ELSE initial_state,
         goal_state |-> IF many_g THEN {fact_G} ELSE goal_state,
         actions |-> IF many_g THEN Append(acts1, new_goal(goal_state)) ELSE acts1,
         facts |-> fs \cup (IF many_i THEN {fact_I} ELSE {})
                      \cup (IF many_g THEN {fact_G} ELSE {})]

(* lines 23-24 of compute_h_lm_cut *)
normalise(initial_state, goal_state, acts, fs) ==
    IF Cardinality(initial_state) > 1 \/ Cardinality(goal_state) > 1
    THEN transform_prob(initial_state, goal_state, acts, fs)
    ELSE [initial_state |-> initial_state, goal_state |-> goal_state,
          actions |-> acts, facts |-> fs]

-----------------------------------------------------------------------------
(* planner.py: search nodes and the open list (heapq on SearchNode.__lt__) *)

(* SearchNode: parent_node and action are kept as the path of action names  *)
(* from the root, which is what following parent_node back yields           *)
SearchNode(state, path) ==
    [state |-> state, path |-> path, g_value |-> 0, h_value |-> 0, f_value |-> 0]

no_node == SearchNode({}, <<>>)

lt(a, b) == a.f_value < b.f_value

(* heapq._siftdown; positions count from 0 *)
RECURSIVE sift_down(_, _, _, _)
sift_down(heap, startpos, pos, newitem) ==
    IF pos > startpos /\ lt(newitem, heap[((pos - 1) \div 2) + 1])
    THEN sift_down([heap EXCEPT ![pos + 1] = heap[((pos - 1) \div 2) + 1]],
                   startpos, (pos - 1) \div 2, newitem)
    ELSE [heap EXCEPT ![pos + 1] = newitem]

(* heapq._siftup *)
RECURSIVE sift_up(_, _, _, _)
sift_up(heap, startpos, pos, newitem) ==
    LET endpos == Len(heap)
        left == 2 * pos + 1
        right == left + 1
        childpos == IF right < endpos /\ ~lt(heap[left + 1], heap[right + 1])
                    THEN right ELSE left
    IN  IF left < endpos
        THEN sift_up([heap EXCEPT ![pos + 1] = heap[childpos + 1]],
                     startpos, childpos, newitem)
        ELSE sift_down([heap EXCEPT ![pos + 1] = newitem], startpos, pos, newitem)

heappush(heap, item) == sift_down(Append(heap, item), 0, Len(heap), item)

heappop(heap) ==
    LET lastelt == heap[Len(heap)]
        rest == SubSeq(heap, 1, Len(heap) - 1)
    IN  IF rest = <<>> THEN [item |-> lastelt, heap |-> rest]
        ELSE [item |-> rest[1], heap |-> sift_up(rest, 0, 0, lastelt)]

extract_plan(goal_node) == [plan |-> goal_node.path, cost |-> goal_node.g_value]

text_line(s) == [text |-> s, arg |-> 0]
cost_line(c) == [text |-> "Plan cost:", arg |-> c]

print_plan(plan, cost) ==
    [i \in DOMAIN plan |-> text_line(plan[i])] \o <<cost_line(cost)>>

(* the sequence without the first of its elements equal to `item` *)
without(seq, item) ==
    LET at == Min({i \in DOMAIN seq : seq[i] = item})
    IN  SubSeq(seq, 1, at - 1) \o SubSeq(seq, at + 1, Len(seq))

returned(kind, node) == [kind |-> kind, node |-> node]

-----------------------------------------------------------------------------
(* The tasks of the checked instances: the state variable v0 over 0..2,     *)
(* with or without a second variable v1 over 0..1, all initially 0; at     *)
(* most MaxOps operators out of OperatorPool (each under its own name),    *)
(* each with a cost in 0..MaxCost; a goal out of Goals.                    *)

operator(name, prevail, effects) ==
    [name |-> name, cost |-> 0, prevail |-> prevail, effects |-> effects]

OperatorPool ==
    << operator("a01", <<>>, << <<0, 0, 0, 1>> >>),
       operator("a12", <<>>, << <<0, 0, 1, 2>> >>),
       operator("a02", <<>>, << <<0, 0, 0, 2>> >>),
       operator("b01", <<>>, << <<0, 1, 0, 1>> >>),
       operator("c12", << <<1, 1>> >>, << <<0, 0, 1, 2>> >>),
       operator("d2", <<>>, << <<0, 0, -1, 2>> >>),
       operator("e11", <<>>, << <<0, 0, 0, 1>>, <<0, 1, 0, 1>> >>),
       operator("a10", <<>>, << <<0, 0, 1, 0>> >>),
       operator("a21", <<>>, << <<0, 0, 2, 1>> >>) >>

Goals == { {<<0, 2>>}, {<<0, 0>>}, {<<1, 1>>}, {<<0, 2>>, <<1, 1>>} }

operator_vars(oper) ==
    {c[1] : c \in Range(oper.prevail)} \cup {e[2] : e \in Range(oper.effects)}

RECURSIVE ascending(_)
ascending(S) == IF S = {} THEN <<>> ELSE <<Min(S)>> \o ascending(S \ {Min(S)})

task_of(n, g, S, c) ==
    [initial_state |-> [v \in 1..n |-> 0],
     goal |-> g,
     operators |-> [i \in DOMAIN ascending(S) |->
                       [OperatorPool[ascending(S)[i]] EXCEPT !.cost = c[ascending(S)[i]]]]]

tasks_over(n) ==
    LET usable == {i \in DOMAIN OperatorPool : operator_vars(OperatorPool[i]) \subseteq 0..(n - 1)}
        goals == {g \in Goals : {x[1] : x \in g} \subseteq 0..(n - 1)}
    IN  UNION {{task_of(n, g, S, c) : g \in goals, c \in [S -> 0..MaxCost]} :
                  S \in {T \in SUBSET usable : Cardinality(T) <= MaxOps}}

Tasks == tasks_over(1) \cup tasks_over(2)

-----------------------------------------------------------------------------
(* The run *)

init_state == get_init_state(sas)
goal_state == get_goal_state(sas)

(* the frame of compute_h_lm_cut: its locals, and for the record the state  *)
(* it was called on (arg_state), how it ended (status), the rounds done     *)
(* and the h_max the last round started with                                *)
no_frame ==
    [status |-> "", caller |-> "", arg_state |-> {}, initial_state |-> {},
     goal_state |-> {}, h_lm_cut |-> 0, h_max |-> 0, delta |-> <<>>,
     round |-> 0, prev_h_max |-> 0]

raised_frame(frame) == [frame EXCEPT !.status = "raised"]

pending == returned("pending", no_node)

Init ==
    /\ sas \in Tasks
    /\ entry \in {"run_planning", "A_star"}
    /\ heuristic \in {"hmax", "lmcut"}
    /\ inf_same \in (IF heuristic = "hmax" THEN BOOLEAN ELSE {FALSE})
    /\ actions = convert_fdr_to_strips(sas).actions
    /\ facts = convert_fdr_to_strips(sas).facts
    /\ pc = "start"
    /\ open_nodes = <<>>
    /\ distance = <<>>
    /\ current = no_node
    /\ succ = <<>>
    /\ lm = no_frame
    /\ result = pending
    /\ output = <<>>
    /\ inserted = <<>>

(* run_planning, lines 149-151 *)
RunPlanningLmcut ==
    /\ pc = "start" /\ entry = "run_planning" /\ heuristic = "lmcut"
    /\ output' = <<text_line("0")>>
    /\ pc' = "done"
    /\ UNCHANGED <<sas, entry, heuristic, inf_same, actions, facts, open_nodes,
                   distance, current, succ, lm, result,
                   inserted>>

(* A_star, lines 48-55, with compute_h_max *)
InitNodeHmax ==
    /\ pc = "start" /\ heuristic = "hmax"
    /\ \E h \in compute_h_max(init_state, goal_state, actions, facts) :
          LET init_node == [SearchNode(init_state, <<>>) EXCEPT
                               !.h_value = h, !.f_value = h]
          IN  /\ open_nodes' = heappush(open_nodes, init_node)
              /\ inserted' = Append(inserted, init_node)
    /\ pc' = "loop"
    /\ UNCHANGED <<sas, entry, heuristic, inf_same, actions, facts, distance,
                   current, succ, lm, result, output>>

(* A_star, line 57 and line 77: the open list is empty *)
ReturnNone ==
    /\ pc = "loop" /\ open_nodes = <<>>
    /\ result' = returned("None", no_node)
    /\ pc' = "returned"
    /\ UNCHANGED <<sas, entry, heuristic, inf_same, actions, facts, open_nodes,
                   distance, current, succ, lm, output,
                   inserted>>

(* A_star, lines 58-68: pop, goal test, distance test, get_succ *)
Pop ==
    /\ pc = "loop" /\ open_nodes # <<>>
    /\ LET popped == heappop(open_nodes)
           node == popped.item
           expand == node.state \notin DOMAIN distance
                        \/ node.g_value < distance[node.state]
           raises == expand /\ get_succ_raises(node.state, actions)
           succs == IF expand /\ ~raises THEN get_succ(node.state, actions) ELSE <<>>
       IN  /\ open_nodes' = popped.heap
           /\ inserted' = without(inserted, node)
           /\ current' = node
           /\ IF is_goal(node.state, goal_state)
              THEN /\ result' = returned("node", node)
                   /\ pc' = "returned"
                   /\ UNCHANGED <<distance, succ>>
              ELSE /\ distance' = IF expand THEN (node.state :> node.g_value) @@ distance
                                  ELSE distance
                   /\ succ' = succs
                   /\ result' = IF raises THEN returned("raised", no_node) ELSE result
                   /\ pc' = IF raises THEN "returned"
                            ELSE IF succs = <<>> THEN "loop" ELSE "eval"
    /\ UNCHANGED <<sas, entry, heuristic, inf_same, actions, facts, lm, output>>

(* new_node.h_value is not float('inf'): an identity test against a float   *)
(* made for the test                                                        *)
is_not_inf(h) == h # INF \/ ~inf_same

(* A_star, lines 69-75: the node of the next successor, pushed or dropped *)
new_node(h) ==
    LET s == Head(succ)
        g == current.g_value + actions[s.action].cost
    IN  [SearchNode(s.new_state, Append(current.path, actions[s.action].name))
            EXCEPT !.h_value = h, !.g_value = g, !.f_value = Plus(g, h)]

push_succ(heap, h) == IF is_not_inf(h) THEN heappush(heap, new_node(h)) ELSE heap

(* the same for the record of the insertions *)
note_succ(h) == IF is_not_inf(h) THEN Append(inserted, new_node(h)) ELSE inserted

EvalSuccHmax ==
    /\ pc = "eval" /\ heuristic = "hmax"
    /\ \E h \in compute_h_max(Head(succ).new_state, goal_state, actions, facts) :
          /\ open_nodes' = push_succ(open_nodes, h)
          /\ inserted' = note_succ(h)
    /\ succ' = Tail(succ)
    /\ pc' = IF Tail(succ) = <<>> THEN "loop" ELSE "eval"
    /\ UNCHANGED <<sas, entry, heuristic, inf_same, actions, facts, distance,
                   current, lm, result, output>>

(* compute_h_lm_cut, lines 23-28, called for the initial node (line 52) or  *)
(* for the next successor (line 70); the unpacking of a bare float('inf')   *)
(* raises TypeError, which leaves A_star                                    *)
LmEnter ==
    /\ pc \in {"start", "eval"} /\ heuristic = "lmcut"
    /\ ~(pc = "start" /\ entry = "run_planning")
    /\ LET state == IF pc = "start" THEN init_state ELSE Head(succ).new_state
           t == normalise(state, goal_state, actions, facts)
       IN  /\ actions' = t.actions
           /\ facts' = t.facts
           /\ \E o \in compute_h_max_for_lm_cut(t.initial_state, t.goal_state,
                                                t.actions, t.facts) :
                 IF o.returned_inf
                 THEN /\ result' = returned("raised", no_node)
                      /\ pc' = "returned"
                      /\ lm' = raised_frame([no_frame EXCEPT !.caller = pc,
                                                              !.arg_state = state])
                 ELSE /\ lm' = [status |-> "running", caller |-> pc,
                                arg_state |-> state,
                                initial_state |-> t.initial_state,
                                goal_state |-> t.goal_state, h_lm_cut |-> 0,
                                h_max |-> o.h, delta |-> o.delta, round |-> 0,
                                prev_h_max |-> o.h]
                      /\ pc' = "lm"
                      /\ UNCHANGED result
    /\ UNCHANGED <<sas, entry, heuristic, inf_same, open_nodes, distance, current,
                   succ, output,
                   inserted>>

(* compute_h_lm_cut, lines 30-39: one round of the while loop *)
LmRound ==
    /\ pc = "lm" /\ lm.h_max # 0 /\ lm.round < MaxRounds
    /\ \E supporters \in count_supporters(actions, lm.delta) :
          IF graph_raises(actions, supporters)
          THEN /\ result' = returned("raised", no_node)
               /\ pc' = "returned"
               /\ lm' = raised_frame(lm)
               /\ UNCHANGED actions
          ELSE LET graph == create_justification_graph(actions, supporters)
                   cut == s_t_cut(graph, lm.initial_state, lm.goal_state)
                   found == find_landmarks(cut.N_star, cut.N_zero, graph)
                   adjusted == adjust_landmarks(found.landmarks, found.min_cost, actions)
               IN  /\ actions' = adjusted
                   /\ \E o \in compute_h_max_for_lm_cut(lm.initial_state, lm.goal_state,
                                                        adjusted, facts) :
                         IF o.returned_inf
                         THEN /\ result' = returned("raised", no_node)
                              /\ pc' = "returned"
                              /\ lm' = raised_frame(lm)
                         ELSE /\ lm' = [lm EXCEPT !.h_lm_cut = @ + found.min_cost,
                                                  !.h_max = o.h, !.delta = o.delta,
                                                  !.round = @ + 1,
                                                  !.prev_h_max = lm.h_max]
                              /\ UNCHANGED <<pc, result>>
    /\ UNCHANGED <<sas, entry, heuristic, inf_same, facts, open_nodes, distance,
                   current, succ, output,
                   inserted>>

(* compute_h_lm_cut, line 41, and the caller's use of the value: A_star     *)
(* lines 52-55 for the initial node, lines 72-75 for a successor            *)
LmReturn ==
    /\ pc = "lm" /\ lm.h_max = 0
    /\ lm' = [lm EXCEPT !.status = "returned"]
    /\ IF lm.caller = "start"
       THEN /\ open_nodes' = heappush(open_nodes,
                                      [SearchNode(init_state, <<>>) EXCEPT
                                          !.h_value = lm.h_lm_cut,
                                          !.f_value = lm.h_lm_cut])
            /\ inserted' = Append(inserted,
                                  [SearchNode(init_state, <<>>) EXCEPT
                                      !.h_value = lm.h_lm_cut,
                                      !.f_value = lm.h_lm_cut])
            /\ pc' = "loop"
            /\ UNCHANGED succ
       ELSE /\ open_nodes' = push_succ(open_nodes, lm.h_lm_cut)
            /\ inserted' = note_succ(lm.h_lm_cut)
            /\ succ' = Tail(succ)
            /\ pc' = IF Tail(succ) = <<>> THEN "loop" ELSE "eval"
    /\ UNCHANGED <<sas, entry, heuristic, inf_same, actions, facts, distance,
                   current, result, output>>

(* run_planning, lines 160-167 *)
Report ==
    /\ pc = "returned" /\ entry = "run_planning"
    /\ output' = CASE result.kind = "node" ->
                        print_plan(extract_plan(result.node).plan,
                                   extract_plan(result.node).cost)
                   [] result.kind = "None" -> <<text_line("Plan not found")>>
                   [] OTHER -> <<text_line("An error occurred")>>
    /\ pc' = "done"
    /\ UNCHANGED <<sas, entry, heuristic, inf_same, actions, facts, open_nodes,
                   distance, current, succ, lm, result,
                   inserted>>

Next ==
    \/ RunPlanningLmcut
    \/ InitNodeHmax
    \/ ReturnNone
    \/ Pop
    \/ EvalSuccHmax
    \/ LmEnter
    \/ LmRound
    \/ LmReturn
    \/ Report

Spec == Init /\ [][Next]_vars

(* The runner with h_max: run_planning(sas_file, "hmax") *)
InitHmax == Init /\ entry = "run_planning" /\ heuristic = "hmax"

NextHmax ==
    \/ InitNodeHmax
    \/ ReturnNone
    \/ Pop
    \/ EvalSuccHmax
    \/ Report

SpecHmax == InitHmax /\ [][NextHmax]_vars

(* the run is one thread that never waits: a step that can be taken is taken *)
FairSpecHmax == SpecHmax /\ WF_vars(NextHmax)

-----------------------------------------------------------------------------
(* Successor generation alone (A_star, lines 68-69), on tasks whose         *)
(* variable indices share a decimal prefix: WideVar + 1 state variables,    *)
(* MaxOps operators on the variables 1 and WideVar.                         *)

WideVar == 10

wide_vars == {1, WideVar}

other_var(v) == CHOOSE w \in wide_vars : w # v

wide_shapes ==
    {operator("op", IF k = -1 THEN <<>> ELSE << <<other_var(v), k>> >>,
              << <<0, v, pre, post>> >>) :
        v \in wide_vars, pre \in {-1, 0, 1}, post \in {0, 1}, k \in {-1, 0, 1}}
      \cup {operator("op", <<>>, << <<0, 1, -1, post>>, <<0, WideVar, -1, post2>> >>) :
               post \in {0, 1}, post2 \in {0, 1}}

wide_name(i) == CASE i = 1 -> "op1" [] i = 2 -> "op2" [] i = 3 -> "op3" [] OTHER -> "op4"

WideTasks ==
    {[initial_state |-> [v \in 1..(WideVar + 1) |-> 0],
      goal |-> {<<1, 1>>},
      operators |-> [i \in 1..MaxOps |->
                        [shapes[i] EXCEPT !.name = wide_name(i), !.cost = 1]]] :
        shapes \in [1..MaxOps -> wide_shapes]}

InitSucc ==
    /\ sas \in WideTasks
    /\ entry = "A_star"
    /\ heuristic = "hmax"
    /\ inf_same = FALSE
    /\ actions = convert_fdr_to_strips(sas).actions
    /\ facts = convert_fdr_to_strips(sas).facts
    /\ pc = "generate"
    /\ open_nodes = <<>>
    /\ distance = <<>>
    /\ current = SearchNode(get_init_state(sas), <<>>)
    /\ succ = <<>>
    /\ lm = no_frame
    /\ result = pending
    /\ output = <<>>
    /\ inserted = <<>>

(* line 68: get_succ(current.state, actions) *)
Generate ==
    /\ pc = "generate"
    /\ succ' = get_succ(current.state, actions)
    /\ pc' = "choose"
    /\ UNCHANGED <<sas, entry, heuristic, inf_same, actions, facts, open_nodes,
                   distance, current, lm, result, output,
                   inserted>>

(* line 69: a successor becomes a node, and later the current node *)
Choose ==
    /\ pc = "choose"
    /\ \E j \in DOMAIN succ : current' = SearchNode(succ[j].new_state, <<>>)
    /\ succ' = <<>>
    /\ pc' = "generate"
    /\ UNCHANGED <<sas, entry, heuristic, inf_same, actions, facts, open_nodes,
                   distance, lm, result, output,
                   inserted>>

NextSucc == Generate \/ Choose

SpecSucc == InitSucc /\ [][NextSucc]_vars

-----------------------------------------------------------------------------
(* What the claims are measured against: the FDR task itself (states are    *)
(* assignments, an operator needs its prevail conditions and its effects'   *)
(* pre-values and sets its effects' post-values), and the delete            *)
(* relaxation of the converted task.                                        *)

ref_applicable(oper, st) ==
    /\ \A c \in Range(oper.prevail) : st[c[1] + 1] = c[2]
    /\ \A e \in Range(oper.effects) : e[3] = -1 \/ st[e[2] + 1] = e[3]

ref_apply(oper, st) ==
    [v \in DOMAIN st |->
        IF \E e \in Range(oper.effects) : e[2] = v - 1
        THEN (CHOOSE e \in Range(oper.effects) : e[2] = v - 1)[4]
        ELSE st[v]]

ref_goal(st) == \A g \in sas.goal : st[g[1] + 1] = g[2]

(* cheapest cost of reaching each assignment, with the task's own costs *)
RECURSIVE ref_costs(_)
ref_costs(d) ==
    LET ok == UNION {{<<ref_apply(sas.operators[i], st), d[st] + sas.operators[i].cost>> :
                          i \in {j \in DOMAIN sas.operators :
                                    ref_applicable(sas.operators[j], st)}} :
                     st \in DOMAIN d}
        d2 == [st \in DOMAIN d \cup {p[1] : p \in ok} |->
                  Min((IF st \in DOMAIN d THEN {d[st]} ELSE {})
                         \cup {p[2] : p \in {q \in ok : q[1] = st}})]
    IN  IF d2 = d THEN d ELSE ref_costs(d2)

RefCosts == ref_costs(sas.initial_state :> 0)

PlanExists == \E st \in DOMAIN RefCosts : ref_goal(st)

OptimalCost == Min({RefCosts[st] : st \in {x \in DOMAIN RefCosts : ref_goal(x)}})

task == convert_fdr_to_strips(sas)

(* one application of the h_max equations to delta: 0 on the state's       *)
(* facts, elsewhere the cheapest operator adding the fact, at its cost plus *)
(* the dearest of its preconditions (0 when it has none)                    *)
h_max_equations(d, state) ==
    [f \in DOMAIN d |->
        IF f \in state THEN 0
        ELSE Min({INF} \cup
                 {Plus(task.actions[i].cost,
                       Max({0} \cup {d[q] : q \in task.actions[i].preconditions})) :
                     i \in {j \in DOMAIN task.actions : f \in task.actions[j].additions}})]

(* the greatest solution: the equations iterated downwards from +infinity *)
RECURSIVE ref_delta(_, _)
ref_delta(d, state) ==
    LET d2 == h_max_equations(d, state)
    IN  IF d2 = d THEN d ELSE ref_delta(d2, state)

RECURSIVE total_cost(_)
total_cost(acts) == IF acts = <<>> THEN 0 ELSE Head(acts).cost + total_cost(Tail(acts))

(* the least solution: the equations iterated upwards from 0; a value that  *)
(* outgrows the cost of all operators together grows for ever               *)
RECURSIVE least_delta(_, _)
least_delta(d, state) ==
    LET e == h_max_equations(d, state)
        d2 == [f \in DOMAIN d |-> IF e[f] > total_cost(task.actions) THEN INF ELSE e[f]]
    IN  IF d2 = d THEN d ELSE least_delta(d2, state)

LeastHmax(state) ==
    LET d == least_delta([f \in task.facts |-> 0], state)
    IN  Max({0} \cup {d[g] : g \in task.goal_state})

RefHmax(state) ==
    LET d == ref_delta([f \in task.facts |-> IF f \in state THEN 0 ELSE INF], state)
    IN  Max({0} \cup {d[g] : g \in task.goal_state})

(* the facts reachable from `state` when nothing is ever deleted *)
RECURSIVE relaxed_reach(_)
relaxed_reach(R) ==
    LET more == UNION {task.actions[i].additions :
                          i \in {j \in DOMAIN task.actions :
                                    task.actions[j].preconditions \subseteq R}}
    IN  IF more \subseteq R THEN R ELSE relaxed_reach(R \cup more)

RelaxedReachable(state) == task.goal_state \subseteq relaxed_reach(state)

(* the state variable a fact name speaks of: the number between "v" and "_" *)
RECURSIVE parse_dec(_)
parse_dec(digits) ==
    IF digits = <<>> THEN 0
    ELSE 10 * parse_dec(SubSeq(digits, 1, Len(digits) - 1))
           + (Ord(digits[Len(digits)]) - 48)

var_of(fact) ==
    parse_dec(SubSeq(fact, 2, Min({i \in DOMAIN fact : fact[i] = "_"}) - 1))

one_per_var(state) ==
    \A f \in state : \A g \in state : var_of(f) = var_of(g) => f = g

nodes_made == Range(open_nodes) \cup (IF current = no_node THEN {} ELSE {current})

-----------------------------------------------------------------------------
(* The claims *)

(* C1: whenever a plan exists, A_star (with either heuristic) returns a     *)
(* node whose state contains the goal and whose g_value is the cheapest     *)
(* cost of a plan under the task's own operator costs.                      *)
C1_AStarOptimal ==
    (pc \in {"returned", "done"} /\ result.kind # "pending" /\ PlanExists)
        => /\ result.kind = "node"
           /\ is_goal(result.node.state, goal_state)
           /\ result.node.g_value = OptimalCost

(* C2: once compute_h_lm_cut has returned, the caller's operator list and   *)
(* fact set are what they were before the call.                             *)
C2_TaskUnchanged ==
    lm.status = "returned" => actions = task.actions /\ facts = task.facts

(* C3: every round of compute_h_lm_cut's loop leaves h_max strictly smaller *)
(* than it found it.                                                        *)
C3_RoundsDecrease ==
    (lm.status \in {"running", "returned"} /\ lm.round > 0)
        => lm.h_max < lm.prev_h_max

(* C4: on a task with a plan, compute_h_lm_cut on the initial state ends by *)
(* returning a value between compute_h_max's value and the optimal cost.    *)
C4_LmCutBounds ==
    (lm.caller = "start" /\ lm.status \in {"returned", "raised"} /\ PlanExists)
        => /\ lm.status = "returned"
           /\ \A h \in compute_h_max(init_state, goal_state, task.actions, task.facts) :
                 h <= lm.h_lm_cut
           /\ lm.h_lm_cut <= OptimalCost

C6_TerminatesNoneIffNoPlan ==
    /\ <>(pc = "done")
    /\ [](pc = "done" =>
            /\ (result.kind = "None") <=> ~PlanExists
            /\ (output = <<text_line("Plan not found")>>) <=> ~PlanExists)

(* the search has expanded several states and found no plan *)
C6_Witness ==
    pc = "done" /\ result.kind = "None" /\ Cardinality(DOMAIN distance) >= 2

(* C7: run_planning prints the plan's operator names and then the line      *)
(* "Plan cost: <c>" when a plan exists, "Plan not found" when none does,    *)
(* for either heuristic name.                                               *)
C7_RunPlanningOutput ==
    pc = "done" =>
        IF PlanExists
        THEN /\ output # <<>>
             /\ output[Len(output)] = cost_line(OptimalCost)
             /\ \A i \in 1..(Len(output) - 1) :
                   output[i] \in {text_line(sas.operators[j].name) : j \in DOMAIN sas.operators}
        ELSE output = <<text_line("Plan not found")>>

(* C8: every successor get_succ produced contains the additions of its      *)
(* operator and no two facts of one state variable.                         *)
C8_SuccessorWellFormed ==
    \A j \in DOMAIN succ :
        /\ actions[succ[j].action].additions \subseteq succ[j].new_state
        /\ one_per_var(succ[j].new_state)

(* an operator changed variable 1 from 0 to 1 while variable WideVar is 1 *)
C8_Witness ==
    \E j \in DOMAIN succ :
        /\ actions[succ[j].action].deletions = {1}
        /\ fact_name(1, 0) \in current.state
        /\ fact_name(1, 1) \in succ[j].new_state
        /\ fact_name(WideVar, 1) \in succ[j].new_state

(* C9: no node of a successor with h_value = +infinity is in the open list *)
C9_InfDropped ==
    \A n \in Range(open_nodes) : n.path # <<>> => n.h_value # INF

(* C10: called on a state from which the goal is unreachable in the delete  *)
(* relaxation, compute_h_lm_cut returns +infinity and raises nothing.       *)
C10_InfIsValue ==
    (lm.status \in {"returned", "raised"} /\ ~RelaxedReachable(lm.arg_state))
        => lm.status = "returned" /\ lm.h_lm_cut = INF

(* a < b in Python's order on str *)
RECURSIVE str_less(_, _)
str_less(a, b) ==
    IF b = <<>> THEN FALSE
    ELSE IF a = <<>> THEN TRUE
    ELSE IF Head(a) = Head(b) THEN str_less(Tail(a), Tail(b))
    ELSE Ord(Head(a)) < Ord(Head(b))

(* the preconditions of maximal delta *)
tied_at_max(action, delta) ==
    {f \in action.preconditions :
        \A g \in action.preconditions : delta[g] <= delta[f]}

str_greatest(S) == CHOOSE x \in S : \A y \in S : y = x \/ str_less(y, x)

(* C11: where count_supporters is about to be called, every action with    *)
(* preconditions has one possible supporter whatever the order in which     *)
(* its precondition set is traversed: the precondition of maximal delta     *)
(* whose name is the greatest in the lexicographic order.                   *)
C11_SupporterByNameAlone ==
    (pc = "lm" /\ lm.status = "running" /\ lm.h_max # 0)
        => \A i \in DOMAIN actions :
              actions[i].preconditions # {}
                 => action_supporters(actions[i], lm.delta)
                       = {str_greatest(tied_at_max(actions[i], lm.delta))}

-----------------------------------------------------------------------------
(* The open list under ties: A_star with compute_h_max on tasks of up to    *)
(* MaxOpenOps operators over two variables                                  *)

MaxOpenOps == 3

(* a01, a02, b01, d2 *)
OpenPool == {1, 3, 4, 6}

OpenTasks ==
    UNION {{task_of(2, g, S, c) : g \in Goals, c \in [S -> 0..MaxCost]} :
              S \in {T \in SUBSET OpenPool : Cardinality(T) <= MaxOpenOps}}

InitOpen ==
    /\ sas \in OpenTasks
    /\ entry = "run_planning"
    /\ heuristic = "hmax"
    /\ inf_same \in BOOLEAN
    /\ actions = convert_fdr_to_strips(sas).actions
    /\ facts = convert_fdr_to_strips(sas).facts
    /\ pc = "start"
    /\ open_nodes = <<>>
    /\ distance = <<>>
    /\ current = no_node
    /\ succ = <<>>
    /\ lm = no_frame
    /\ result = pending
    /\ output = <<>>
    /\ inserted = <<>>

SpecOpen == InitOpen /\ [][NextHmax]_vars

(* the held nodes of least f, and the one of them inserted first *)
least_f(held) ==
    {i \in DOMAIN held : \A j \in DOMAIN held : held[i].f_value <= held[j].f_value}

earliest_of_least_f(held) == held[Min(least_f(held))]

(* C12: every pop of the open list takes a held node of least f, and of     *)
(* the held nodes of least f the one that was inserted first.               *)
C12_PopsEarliestOfLeastF ==
    [][Pop => current' = earliest_of_least_f(inserted)]_vars


=============================================================================
